---- MODULE Spec2Model ----
(***************************************************************************)
(* A model of BrowserTool (src/web/browser/main.py): the session handles   *)
(* _browser/_context, _ensure_browser, _cleanup and the four top-level     *)
(* coroutines Visit, FillForm, ExtractData and MonitorChanges.             *)
(*                                                                         *)
(* A coroutine is cut at its awaits.  pc[t] names the driver call task t   *)
(* is suspended in; the action named after that call is its resumption:    *)
(* the awaited call either raises or returns, and the Python code that     *)
(* follows runs without interruption up to the next await.                 *)
(***************************************************************************)
EXTENDS Integers, Sequences, FiniteSets, TLC

\* Bounds of the model.
MaxCalls == 2
MaxElems == 2
MaxFields == 2
MaxMaxTime == 3
MaxInterval == 2

\* The tasks that call into one BrowserTool instance.
Tasks == {1, 2}

VARIABLES
    _browser,   \* self._browser: None or a browser
    _context,   \* self._context: None or a context
    drivers,    \* playwright drivers started by async_playwright().start()
    browsers,   \* the open browsers: browser -> [by]
    contexts,   \* the open contexts: context -> [browser, by]
    pages,      \* the open pages:    page -> [context, by]
    ncalls,     \* top-level calls started so far
    pc,         \* pc[t]: where task t is suspended
    args,       \* args[t]: the arguments of the call task t runs
    loc         \* loc[t]: the local variables of the call task t runs

vars == <<_browser, _context, drivers, browsers, contexts, pages, ncalls, pc, args, loc>>
handles == <<_browser, _context>>
world == <<drivers, browsers, contexts, pages>>

None == 0

(***************************************************************************)
(* Python values: None, str and list, with Python's truth value.           *)
(***************************************************************************)
PyNone == [type |-> "NoneType", s |-> "", l |-> <<>>]
PyStr(str) == [type |-> "str", s |-> str, l |-> <<>>]
PyList(items) == [type |-> "list", s |-> "", l |-> items]

Truthy(v) ==
    CASE v.type = "NoneType" -> FALSE
      [] v.type = "str" -> v.s /= ""
      [] v.type = "list" -> v.l /= <<>>

\* d[k] = v on a dict
Put(d, k, v) == (k :> v) @@ d

EmptyDict == <<>>

\* return {"error": str(e)}
ErrorResult == ("error" :> "message")

(***************************************************************************)
(* Arguments and locals of a call.                                         *)
(***************************************************************************)
NoArgs ==
    [op |-> "none", url |-> "u",
     wait_for |-> PyNone, extract_text |-> TRUE, extract_html |-> FALSE,
     screenshot |-> FALSE, javascript |-> PyNone,
     form_data |-> <<>>, submit_button |-> "#submit",
     wait_after_submit |-> PyNone, screenshot_result |-> FALSE,
     selectors |-> <<>>, extract_attributes |-> PyNone,
     selector |-> "#s", interval |-> 60, max_time |-> 3600,
     screenshot_changes |-> FALSE]

NoLoc ==
    [id |-> 0,            \* number of this call
     after |-> "idle",    \* how the task's previous call ended
     ctx |-> None,        \* the context self._context.new_page() was called on
     page |-> None,       \* page
     browser |-> None,    \* the browser launched, or the browser being closed
     exc |-> FALSE,       \* an exception is propagating
     result |-> EmptyDict,\* result
     ret |-> EmptyDict,   \* the value handed to the return statement
     trace |-> <<>>,      \* driver calls of this call that completed: <<name, ok>>
     page_url |-> "",     \* the URL the page is at
     dom |-> <<>>,        \* the elements of the page the call has resolved
     i |-> 0,             \* position in the dict being iterated
     element |-> 0,       \* element
     tag_name |-> "",     \* tag_name
     input_type |-> "",   \* input_type
     fills |-> <<>>,      \* the field actions that returned: [selector, element, value, action, before, after]
     j |-> 0,             \* position in elements
     elements |-> <<>>,   \* elements: what each matched element holds
     texts |-> <<>>,      \* texts
     values |-> <<>>,     \* values
     matched |-> <<>>,    \* what each text selector matched so far
     matched_attr |-> <<>>, \* what each attribute selector matched so far
     initial_content |-> "", \* initial_content
     current_content |-> "", \* current_content
     changes |-> <<>>,    \* changes
     change |-> EmptyDict,\* change
     start_time |-> 0,    \* start_time
     now |-> 0,           \* what datetime.now() returns, in seconds
     baseline |-> "",     \* the content read before the loop
     reads |-> <<>>]      \* what each read of the loop returned, "raised" when it raised

Ev(l, name, ok) == [l EXCEPT !.trace = Append(@, <<name, ok>>)]

(***************************************************************************)
(* The driver's objects.  browsers, contexts and pages hold the objects    *)
(* that are open, each with the number of the call that opened it.         *)
(* Closing a browser closes its contexts, closing a context closes its     *)
(* pages; close() on an object already closed changes nothing.  An object  *)
(* gets an identity no open object and no reference still in use has.      *)
(***************************************************************************)
InFlight(t) == pc[t] \notin {"idle", "returned", "raised"}

Without(f, S) == [x \in DOMAIN f \ S |-> f[x]]

Fresh(used) == CHOOSE n \in 1..(Cardinality(used) + 1) : n \notin used

NewBrowser ==
    Fresh(DOMAIN browsers \cup {_browser}
          \cup {loc[t].browser : t \in {u \in Tasks : InFlight(u)}}
          \cup {contexts[c].browser : c \in DOMAIN contexts})

NewContext ==
    Fresh(DOMAIN contexts \cup {_context}
          \cup {loc[t].ctx : t \in {u \in Tasks : InFlight(u)}}
          \cup {pages[p].context : p \in DOMAIN pages})

NewPage ==
    Fresh(DOMAIN pages \cup {loc[t].page : t \in {u \in Tasks : InFlight(u)}})

PageAlive(p) == p \in DOMAIN pages
ContextAlive(c) == c \in DOMAIN contexts
BrowserAlive(b) == b \in DOMAIN browsers

PagesOf(cs) == {p \in DOMAIN pages : pages[p].context \in cs}
ContextsOf(b) == {c \in DOMAIN contexts : contexts[c].browser = b}

CloseContext(c) ==
    /\ contexts' = Without(contexts, {c})
    /\ pages' = Without(pages, PagesOf({c}))
    /\ UNCHANGED <<drivers, browsers>>

CloseBrowser(b) ==
    /\ browsers' = Without(browsers, {b})
    /\ contexts' = Without(contexts, ContextsOf(b))
    /\ pages' = Without(pages, PagesOf(ContextsOf(b)))
    /\ UNCHANGED drivers

ClosePage(p) ==
    /\ pages' = Without(pages, {p})
    /\ UNCHANGED <<drivers, browsers, contexts>>

(***************************************************************************)
(* Control transfers.  Each runs the synchronous code up to the next await *)
(* and sets pc[t] and loc[t]; the caller states what else changes.         *)
(***************************************************************************)
Suspend(t, label, l) ==
    /\ pc' = [pc EXCEPT ![t] = label]
    /\ loc' = [loc EXCEPT ![t] = l]

\* _cleanup, lines 32-34 and 36-37 when nothing is left to close: the first
\* close() it awaits, on the handles as they are when the finally block runs.
_cleanup(t, l) ==
    IF _context /= None
    THEN Suspend(t, "context_close", [l EXCEPT !.ctx = _context])
    ELSE IF _browser /= None
         THEN Suspend(t, "browser_close", [l EXCEPT !.browser = _browser])
         ELSE Suspend(t, "returned", l)

\* return r from inside "try: ... except Exception ... finally: await self._cleanup()"
Return(t, l, r) == _cleanup(t, [l EXCEPT !.ret = r, !.exc = FALSE])

\* an except clause that adds the error to the result built so far
Except_keeps_result(t, l) == Return(t, l, Put(l.result, "error", "message"))

\* except Exception as e: return {"error": str(e)}
Except(t, l) == Return(t, l, ErrorResult)

\* the inner "finally: await page.close()", entered with an exception (exc) or
\* with the value of "return result"
InnerFinally(t, l) == Suspend(t, "page_close", l)

\* an exception inside the inner try when page.close() is awaited on the
\* normal path only
Raise_skips_page_close(t, l) == Except(t, [l EXCEPT !.exc = TRUE])

\* an exception inside the inner try: the inner finally runs first
Raise(t, l) == InnerFinally(t, [l EXCEPT !.exc = TRUE])

\* page = await self._context.new_page(), evaluated on the handle c
NewPageCall(t, l, c) ==
    IF c = None
    THEN Except(t, l)     \* AttributeError: 'NoneType' object has no attribute 'new_page'
    ELSE Suspend(t, "new_page", [l EXCEPT !.ctx = c])

\* A top-level coroutine whose _ensure_browser launches whatever self._browser is
Begin_always_launches(t, a) ==
    /\ pc[t] \in {"idle", "returned", "raised"}
    /\ ncalls < MaxCalls
    /\ ncalls' = ncalls + 1
    /\ args' = [args EXCEPT ![t] = a]
    /\ Suspend(t, "start", [NoLoc EXCEPT !.id = ncalls + 1, !.after = pc[t]])
    /\ UNCHANGED <<handles, world>>

\* A top-level coroutine starts: await self._ensure_browser(), lines 24-25.
Begin(t, a) ==
    /\ pc[t] \in {"idle", "returned", "raised"}
    /\ ncalls < MaxCalls
    /\ ncalls' = ncalls + 1
    /\ args' = [args EXCEPT ![t] = a]
    /\ LET l == [NoLoc EXCEPT !.id = ncalls + 1, !.after = pc[t]]
       IN  IF _browser = None
           THEN Suspend(t, "start", l)
           ELSE NewPageCall(t, l, _context)
    /\ UNCHANGED <<handles, world>>

(***************************************************************************)
(* _ensure_browser                                                         *)
(***************************************************************************)
\* playwright = await pw.async_playwright().start()
ensure_browser_start(t) ==
    /\ pc[t] = "start"
    /\ \/ /\ Except(t, Ev(loc[t], "start", FALSE))
          /\ UNCHANGED <<handles, world>>
       \/ /\ drivers' = drivers + 1
          /\ Suspend(t, "launch", Ev(loc[t], "start", TRUE))
          /\ UNCHANGED <<handles, browsers, contexts, pages>>
    /\ UNCHANGED <<ncalls, args>>

\* self._browser = await browser_class.launch(headless=self.headless)
ensure_browser_launch(t) ==
    /\ pc[t] = "launch"
    /\ \/ /\ Except(t, Ev(loc[t], "launch", FALSE))
          /\ UNCHANGED <<handles, world>>
       \/ /\ browsers' = (NewBrowser :> [by |-> loc[t].id]) @@ browsers
          /\ _browser' = NewBrowser
          /\ Suspend(t, "new_context", [Ev(loc[t], "launch", TRUE) EXCEPT !.browser = NewBrowser])
          /\ UNCHANGED <<_context, drivers, contexts, pages>>
    /\ UNCHANGED <<ncalls, args>>

\* self._context = await self._browser.new_context()
ensure_browser_new_context(t) ==
    /\ pc[t] = "new_context"
    /\ \/ /\ Except(t, Ev(loc[t], "new_context", FALSE))
          /\ UNCHANGED <<handles, world>>
       \/ /\ BrowserAlive(loc[t].browser)
          /\ contexts' = (NewContext :> [browser |-> loc[t].browser, by |-> loc[t].id]) @@ contexts
          /\ _context' = NewContext
          /\ NewPageCall(t, Ev(loc[t], "new_context", TRUE), NewContext)
          /\ UNCHANGED <<_browser, drivers, browsers, pages>>
    /\ UNCHANGED <<ncalls, args>>

(***************************************************************************)
(* _cleanup                                                                *)
(***************************************************************************)
\* await self._context.close(), then lines 34-37
cleanup_context_close(t) ==
    /\ pc[t] = "context_close"
    /\ \/ /\ Suspend(t, "raised", Ev(loc[t], "context.close", FALSE))
          /\ UNCHANGED <<handles, world>>
       \/ /\ CloseContext(loc[t].ctx)
          /\ IF _browser /= None
             THEN /\ Suspend(t, "browser_close", [Ev(loc[t], "context.close", TRUE) EXCEPT !.browser = _browser])
                  /\ UNCHANGED handles
             ELSE /\ Suspend(t, "returned", Ev(loc[t], "context.close", TRUE))
                  /\ _context' = None
                  /\ _browser' = None
    /\ UNCHANGED <<ncalls, args>>

\* _cleanup without lines 36-37
cleanup_browser_close_keeps_handles(t) ==
    /\ pc[t] = "browser_close"
    /\ \/ /\ Suspend(t, "raised", Ev(loc[t], "browser.close", FALSE))
          /\ UNCHANGED <<handles, world>>
       \/ /\ CloseBrowser(loc[t].browser)
          /\ Suspend(t, "returned", Ev(loc[t], "browser.close", TRUE))
          /\ UNCHANGED handles
    /\ UNCHANGED <<ncalls, args>>

\* await self._browser.close(), then lines 36-37
cleanup_browser_close(t) ==
    /\ pc[t] = "browser_close"
    /\ \/ /\ Suspend(t, "raised", Ev(loc[t], "browser.close", FALSE))
          /\ UNCHANGED <<handles, world>>
       \/ /\ CloseBrowser(loc[t].browser)
          /\ Suspend(t, "returned", Ev(loc[t], "browser.close", TRUE))
          /\ _context' = None
          /\ _browser' = None
    /\ UNCHANGED <<ncalls, args>>

(***************************************************************************)
(* page = await self._context.new_page() and the inner finally             *)
(***************************************************************************)
\* the coroutine's first await inside the inner try: page.goto(url)
new_page(t) ==
    /\ pc[t] = "new_page"
    /\ \/ /\ Except(t, Ev(loc[t], "new_page", FALSE))
          /\ UNCHANGED <<handles, world>>
       \/ /\ ContextAlive(loc[t].ctx)
          /\ pages' = (NewPage :> [context |-> loc[t].ctx, by |-> loc[t].id]) @@ pages
          /\ Suspend(t, "goto", [Ev(loc[t], "new_page", TRUE) EXCEPT !.page = NewPage])
          /\ UNCHANGED <<handles, drivers, browsers, contexts>>
    /\ UNCHANGED <<ncalls, args>>

\* finally: await page.close()
page_close(t) ==
    /\ pc[t] = "page_close"
    /\ \/ /\ Except(t, Ev(loc[t], "page.close", FALSE))
          /\ UNCHANGED <<handles, world>>
       \/ /\ ClosePage(loc[t].page)
          /\ LET l == Ev(loc[t], "page.close", TRUE)
             IN  IF loc[t].exc THEN Except(t, l) ELSE Return(t, l, loc[t].result)
          /\ UNCHANGED handles
    /\ UNCHANGED <<ncalls, args>>

(***************************************************************************)
(* Strings that the code inspects are sequences of characters.             *)
(***************************************************************************)
UpperCase == <<"A", "B", "C", "D", "E", "F", "G", "H", "I", "J", "K", "L", "M",
               "N", "O", "P", "Q", "R", "S", "T", "U", "V", "W", "X", "Y", "Z">>
LowerCase == <<"a", "b", "c", "d", "e", "f", "g", "h", "i", "j", "k", "l", "m",
               "n", "o", "p", "q", "r", "s", "t", "u", "v", "w", "x", "y", "z">>

\* str.lower()
LowerChar(c) ==
    IF \E n \in DOMAIN UpperCase : UpperCase[n] = c
    THEN LowerCase[CHOOSE n \in DOMAIN UpperCase : UpperCase[n] = c]
    ELSE c
Lower(str) == [n \in DOMAIN str |-> LowerChar(str[n])]

\* document.title of the document at URL u
TitleOf(u) == <<"title of", u>>

(***************************************************************************)
(* Visit                                                                   *)
(***************************************************************************)
\* The awaits of Visit's inner try, in program order (lines 73-98).
VisitOrder == <<"goto", "wait_for_selector", "title", "text", "html", "javascript", "screenshot">>

\* page.content() under extract_text instead of extract_html
VisitWants_html_on_text(a, call) ==
    CASE call = "goto" -> TRUE
      [] call = "wait_for_selector" -> Truthy(a.wait_for)
      [] call = "title" -> TRUE
      [] call = "text" -> a.extract_text
      [] call = "html" -> a.extract_text
      [] call = "javascript" -> Truthy(a.javascript)
      [] call = "screenshot" -> a.screenshot

\* The condition under which Visit makes each of these driver calls.
VisitWants(a, call) ==
    CASE call = "goto" -> TRUE
      [] call = "wait_for_selector" -> Truthy(a.wait_for)
      [] call = "title" -> TRUE
      [] call = "text" -> a.extract_text
      [] call = "html" -> a.extract_html
      [] call = "javascript" -> Truthy(a.javascript)
      [] call = "screenshot" -> a.screenshot

\* After the k-th call returned: on to the last call asked for, passing over
\* the ones between
VisitContinue_to_last(t, l, k) ==
    LET later == {n \in (k + 1)..Len(VisitOrder) : VisitWants(args[t], VisitOrder[n])}
    IN  IF later = {}
        THEN InnerFinally(t, [l EXCEPT !.exc = FALSE])
        ELSE Suspend(t, VisitOrder[CHOOSE n \in later : \A m \in later : n >= m], l)

\* After the k-th call of VisitOrder returned: the next call Visit awaits, or
\* "return result" (line 101) through the inner finally.
VisitContinue(t, l, k) ==
    LET later == {n \in (k + 1)..Len(VisitOrder) : VisitWants(args[t], VisitOrder[n])}
    IN  IF later = {}
        THEN InnerFinally(t, [l EXCEPT !.exc = FALSE])
        ELSE Suspend(t, VisitOrder[CHOOSE n \in later : \A m \in later : n <= m], l)

\* The k-th call of VisitOrder completes: it raises, or it returns and l holds
\* the locals after the statement that awaited it.
VisitStep(t, k, l) ==
    /\ args[t].op = "Visit"
    /\ pc[t] = VisitOrder[k]
    /\ \/ Raise(t, Ev(loc[t], VisitOrder[k], FALSE))
       \/ /\ PageAlive(loc[t].page)
          /\ VisitContinue(t, Ev(l, VisitOrder[k], TRUE), k)
    /\ UNCHANGED <<handles, world, ncalls, args>>

\* await page.goto(url, timeout=self.timeout)
Visit_goto(t) == VisitStep(t, 1, [loc[t] EXCEPT !.page_url = args[t].url])

\* await page.wait_for_selector(wait_for, timeout=self.timeout)
Visit_wait_for_selector(t) == VisitStep(t, 2, loc[t])

\* result = {"success": True, "url": url, "title": await page.title()}
Visit_title(t) ==
    VisitStep(t, 3, [loc[t] EXCEPT !.result =
        Put(Put(Put(EmptyDict, "success", TRUE), "url", args[t].url), "title", TitleOf(loc[t].page_url))])

\* result["text"] = await page.evaluate('() => document.body.innerText')
Visit_text(t) == VisitStep(t, 4, [loc[t] EXCEPT !.result = Put(@, "text", "inner text")])

\* result["html"] = await page.content()
Visit_html(t) == VisitStep(t, 5, [loc[t] EXCEPT !.result = Put(@, "html", "<html>")])

\* result["javascript_result"] = await page.evaluate(javascript)
Visit_javascript(t) == VisitStep(t, 6, [loc[t] EXCEPT !.result = Put(@, "javascript_result", "value")])

\* lines 94-99: await page.screenshot(path=path, full_page=True); result["screenshot_path"] = path
Visit_screenshot(t) == VisitStep(t, 7, [loc[t] EXCEPT !.result = Put(@, "screenshot_path", "screenshot.png")])

VisitInputs ==
    {[NoArgs EXCEPT !.op = "Visit", !.wait_for = w, !.extract_text = x, !.extract_html = h,
                    !.screenshot = s, !.javascript = j] :
        w \in {PyNone, PyStr(""), PyStr("#w")}, x \in BOOLEAN, h \in BOOLEAN,
        s \in BOOLEAN, j \in {PyNone, PyStr("js")}}

Visit(t, I) == \E a \in {x \in I : x.op = "Visit"} : Begin(t, a)

(***************************************************************************)
(* FillForm                                                                *)
(***************************************************************************)
\* value in ["true", "1", "yes"]
Checks_as_written(value) == value \in {<<"t", "r", "u", "e">>, <<"1">>, <<"y", "e", "s">>}

\* value.lower() in ["true", "1", "yes"]
Checks(value) == Lower(value) \in {<<"t", "r", "u", "e">>, <<"1">>, <<"y", "e", "s">>}

\* the dispatch of lines 147-155 with check/uncheck for checkboxes only
FieldAction_checkbox_only(tag_name, input_type, value) ==
    IF tag_name = "select" THEN "select_option"
    ELSE IF input_type = "checkbox"
         THEN IF Checks(value) THEN "check" ELSE "uncheck"
         ELSE "fill"

\* Lines 147-155: the driver call FillForm makes on a field's element.
FieldAction(tag_name, input_type, value) ==
    IF tag_name = "select" THEN "select_option"
    ELSE IF input_type \in {"checkbox", "radio"}
         THEN IF Checks(value) THEN "check" ELSE "uncheck"
         ELSE "fill"

\* The elements a selector can resolve to, as the document holds them.
ElementStates ==
    {[tag |-> "select", type |-> "select-one", checked |-> FALSE, value |-> <<>>],
     [tag |-> "input", type |-> "text", checked |-> FALSE, value |-> <<>>]}
    \cup {[tag |-> "input", type |-> ty, checked |-> c, value |-> <<"o", "n">>] :
            ty \in {"checkbox", "radio"}, c \in BOOLEAN}

\* The element after the driver call returned.  check() and uncheck() return
\* only with the element in the state asked for; when the driver cannot bring
\* it there (a click does not clear a selected radio button) the call raises.
Applied(el, action, value) ==
    CASE action = "select_option" -> [el EXCEPT !.value = value]
      [] action = "check" -> [el EXCEPT !.checked = TRUE]
      [] action = "uncheck" -> [el EXCEPT !.checked = FALSE]
      [] action = "fill" -> [el EXCEPT !.value = value]

\* the loop of line 140 left after its first field
FillFormLoop_first_field_only(t, l, i) ==
    IF i <= Len(args[t].form_data) /\ i <= 1
    THEN Suspend(t, "field", [l EXCEPT !.i = i])
    ELSE Suspend(t, "submit", [l EXCEPT !.i = i])

\* for selector, value in form_data.items(): the next field's
\* wait_for_selector, or after the last one the submit button's (line 158)
FillFormLoop(t, l, i) ==
    IF i <= Len(args[t].form_data)
    THEN Suspend(t, "field", [l EXCEPT !.i = i])
    ELSE Suspend(t, "submit", [l EXCEPT !.i = i])

\* A driver call of FillForm's inner try completes: it raises, or it returns
\* and the code runs on from label `next` with the locals l.
FillFormStep(t, label, next, l) ==
    /\ args[t].op = "FillForm"
    /\ pc[t] = label
    /\ \/ Raise(t, Ev(loc[t], label, FALSE))
       \/ /\ PageAlive(loc[t].page)
          /\ CASE next = "loop" -> FillFormLoop(t, Ev(l, label, TRUE), l.i)
               [] next = "return" -> InnerFinally(t, [Ev(l, label, TRUE) EXCEPT !.exc = FALSE])
               [] OTHER -> Suspend(t, next, Ev(l, label, TRUE))
    /\ UNCHANGED <<handles, world, ncalls, args>>

\* await page.goto(url, timeout=self.timeout)
FillForm_goto(t) ==
    FillFormStep(t, "goto", "loop", [loc[t] EXCEPT !.page_url = args[t].url, !.i = 1])

\* element = await page.wait_for_selector(selector, timeout=self.timeout)
FillForm_field(t) ==
    \E e \in 1..MaxElems, st \in ElementStates :
        /\ e <= Len(loc[t].dom) + 1
        /\ e \in DOMAIN loc[t].dom => st = loc[t].dom[e]
        /\ FillFormStep(t, "field", "tag_name",
              [loc[t] EXCEPT !.element = e,
                             !.dom = IF e \in DOMAIN @ THEN @ ELSE Append(@, st)])

\* tag_name = await element.evaluate('el => el.tagName.toLowerCase()')
FillForm_tag_name(t) ==
    FillFormStep(t, "tag_name", "input_type",
        [loc[t] EXCEPT !.tag_name = loc[t].dom[loc[t].element].tag])

\* input_type = await element.evaluate('el => el.type?.toLowerCase()'), then
\* the dispatch of lines 147-155
FillForm_input_type(t) ==
    LET ty == loc[t].dom[loc[t].element].type
    IN  FillFormStep(t, "input_type",
            FieldAction(loc[t].tag_name, ty, args[t].form_data[loc[t].i].value),
            [loc[t] EXCEPT !.input_type = ty])

\* await element.select_option(value=value) / element.check() /
\* element.uncheck() / element.fill(value), then the next field
FillForm_action(t) ==
    LET l == loc[t]
        value == args[t].form_data[l.i].value
        after == Applied(l.dom[l.element], pc[t], value)
    IN  /\ pc[t] \in {"select_option", "check", "uncheck", "fill"}
        /\ FillFormStep(t, pc[t], "loop",
              [l EXCEPT !.dom[l.element] = after,
                        !.i = l.i + 1,
                        !.fills = Append(@, [selector |-> args[t].form_data[l.i].selector,
                                             element |-> l.element, value |-> value,
                                             action |-> pc[t],
                                             before |-> l.dom[l.element], after |-> after])])

\* submit = await page.wait_for_selector(submit_button, timeout=self.timeout)
FillForm_submit(t) == FillFormStep(t, "submit", "click", loc[t])

\* await submit.click(): the submission may take the page to another URL
FillForm_click(t) ==
    \E u \in {args[t].url, "u/submitted"} :
        FillFormStep(t, "click",
            IF Truthy(args[t].wait_after_submit) THEN "wait_after_submit" ELSE "title",
            [loc[t] EXCEPT !.page_url = u])

\* await page.wait_for_selector(wait_after_submit, timeout=self.timeout)
FillForm_wait_after_submit(t) == FillFormStep(t, "wait_after_submit", "title", loc[t])

\* result = {"success": True, "url": url, "title": await page.title()}
FillForm_title(t) ==
    FillFormStep(t, "title",
        IF args[t].screenshot_result THEN "screenshot" ELSE "return",
        [loc[t] EXCEPT !.result =
            Put(Put(Put(EmptyDict, "success", TRUE), "url", args[t].url), "title", TitleOf(loc[t].page_url))])

\* lines 172-177: await page.screenshot(path=path, full_page=True); result["screenshot_path"] = path
FillForm_screenshot(t) ==
    FillFormStep(t, "screenshot", "return",
        [loc[t] EXCEPT !.result = Put(@, "screenshot_path", "form_result.png")])

FormValues ==
    {<<"t", "r", "u", "e">>, <<"1">>, <<"Y", "e", "S">>, <<"f", "a", "l", "s", "e">>, <<>>}

FieldSelectors == <<"#f1", "#f2", "#f3", "#f4">>

\* form_data with n fields, in the caller's order
FormData(n, V) ==
    {[k \in 1..n |-> [selector |-> FieldSelectors[k], value |-> v[k]]] : v \in [1..n -> V]}

\* Every value on a form of one field, the values of either kind on longer forms.
FillFormInputs ==
    {[NoArgs EXCEPT !.op = "FillForm", !.form_data = f] :
        f \in FormData(1, FormValues)
               \cup UNION {FormData(n, {<<"Y", "e", "S">>, <<"f", "a", "l", "s", "e">>}) : n \in 0..MaxFields}}
    \cup {[NoArgs EXCEPT !.op = "FillForm", !.wait_after_submit = w, !.screenshot_result = s] :
            w \in {PyNone, PyStr(""), PyStr("#done")}, s \in BOOLEAN}

FillForm(t, I) == \E a \in {x \in I : x.op = "FillForm"} : Begin(t, a)

(***************************************************************************)
(* ExtractData                                                             *)
(***************************************************************************)
\* texts[0] if texts else texts
TextEntry_first(texts) == IF Len(texts) >= 1 THEN texts[1] ELSE PyList(texts)

\* line 231: texts[0] if len(texts) == 1 else texts
TextEntry(texts) == IF Len(texts) = 1 THEN texts[1] ELSE PyList(texts)

\* line 242 left out
Kept_every(value) == TRUE

\* line 242: if value:
Kept(value) == Truthy(value)

\* line 244: values[0] if len(values) == 1 else values
AttributeEntry(values) == IF Len(values) = 1 THEN values[1] ELSE PyList(values)

\* What query_selector_all can find: up to MaxElems elements, each with its
\* inner text, or each with the attribute's value (None when it has none).
InnerTexts == {[inner_text |-> PyStr("")], [inner_text |-> PyStr("x")]}
AttributeValues == {[attribute |-> PyNone], [attribute |-> PyStr("")], [attribute |-> PyStr("v")]}
Matches(V) == UNION {[1..n -> V] : n \in 0..MaxElems}

\* return result (line 246)
ExtractReturn(t, l) == InnerFinally(t, [l EXCEPT !.exc = FALSE])

\* for selector, attribute in extract_attributes.items(): (line 236)
AttributeLoop(t, l, i) ==
    IF i <= Len(args[t].extract_attributes.l)
    THEN Suspend(t, "query_attribute", [l EXCEPT !.i = i])
    ELSE ExtractReturn(t, l)

\* if extract_attributes: result["attributes"] = {} (lines 234-235)
AttributeStart(t, l) ==
    IF Truthy(args[t].extract_attributes)
    THEN AttributeLoop(t, [l EXCEPT !.result = Put(@, "attributes", EmptyDict)], 1)
    ELSE ExtractReturn(t, l)

\* for key, selector in selectors.items(): (line 225)
TextLoop(t, l, i) ==
    IF i <= Len(args[t].selectors)
    THEN Suspend(t, "query_text", [l EXCEPT !.i = i])
    ELSE AttributeStart(t, l)

\* for element in elements: (lines 228-231; an element handle is true)
TextElements(t, l, j) ==
    IF j <= Len(l.elements)
    THEN Suspend(t, "inner_text", [l EXCEPT !.j = j])
    ELSE TextLoop(t, [l EXCEPT !.result =
                         Put(@, "data", Put(@["data"], args[t].selectors[l.i].key, TextEntry(l.texts)))],
                  l.i + 1)

\* for element in elements: (lines 239-244)
AttributeElements(t, l, j) ==
    IF j <= Len(l.elements)
    THEN Suspend(t, "get_attribute", [l EXCEPT !.j = j])
    ELSE AttributeLoop(t, [l EXCEPT !.result =
                              Put(@, "attributes",
                                  Put(@["attributes"], args[t].extract_attributes.l[l.i].selector,
                                      AttributeEntry(l.values)))],
                       l.i + 1)

\* result = {"success": True, "url": url, "data": {}} (lines 218-222)
ExtractStart(t, l) ==
    TextLoop(t, [l EXCEPT !.result =
                    Put(Put(Put(EmptyDict, "success", TRUE), "url", args[t].url), "data", EmptyDict)], 1)

\* the driver call ExtractData awaits at `label` raises
ExtractRaise(t, label) ==
    /\ args[t].op = "ExtractData"
    /\ pc[t] = label
    /\ Raise(t, Ev(loc[t], label, FALSE))
    /\ UNCHANGED <<handles, world, ncalls, args>>

\* the driver call ExtractData awaits at `label` returns
ExtractOk(t, label) ==
    /\ args[t].op = "ExtractData"
    /\ pc[t] = label
    /\ PageAlive(loc[t].page)
    /\ UNCHANGED <<handles, world, ncalls, args>>

\* await page.goto(url, timeout=self.timeout)
ExtractData_goto(t) ==
    \/ ExtractRaise(t, "goto")
    \/ /\ ExtractOk(t, "goto")
       /\ LET l == [Ev(loc[t], "goto", TRUE) EXCEPT !.page_url = args[t].url]
          IN  IF Truthy(args[t].wait_for)
              THEN Suspend(t, "wait_for_selector", l)
              ELSE ExtractStart(t, l)

\* await page.wait_for_selector(wait_for, timeout=self.timeout)
ExtractData_wait_for_selector(t) ==
    \/ ExtractRaise(t, "wait_for_selector")
    \/ /\ ExtractOk(t, "wait_for_selector")
       /\ ExtractStart(t, Ev(loc[t], "wait_for_selector", TRUE))

\* elements = await page.query_selector_all(selector); texts = [] (lines 226-227)
ExtractData_query_text(t) ==
    \/ ExtractRaise(t, "query_text")
    \/ /\ ExtractOk(t, "query_text")
       /\ \E found \in Matches(InnerTexts) :
            TextElements(t, [Ev(loc[t], "query_text", TRUE) EXCEPT
                                !.elements = found, !.texts = <<>>,
                                !.matched = Append(@, found)], 1)

\* texts.append(await element.inner_text())
ExtractData_inner_text(t) ==
    \/ ExtractRaise(t, "inner_text")
    \/ /\ ExtractOk(t, "inner_text")
       /\ TextElements(t, [Ev(loc[t], "inner_text", TRUE) EXCEPT
                              !.texts = Append(@, loc[t].elements[loc[t].j].inner_text)],
                       loc[t].j + 1)

\* elements = await page.query_selector_all(selector); values = [] (lines 237-238)
ExtractData_query_attribute(t) ==
    \/ ExtractRaise(t, "query_attribute")
    \/ /\ ExtractOk(t, "query_attribute")
       /\ \E found \in Matches(AttributeValues) :
            AttributeElements(t, [Ev(loc[t], "query_attribute", TRUE) EXCEPT
                                     !.elements = found, !.values = <<>>,
                                     !.matched_attr = Append(@, found)], 1)

\* value = await element.get_attribute(attribute); if value: values.append(value)
ExtractData_get_attribute(t) ==
    \/ ExtractRaise(t, "get_attribute")
    \/ /\ ExtractOk(t, "get_attribute")
       /\ LET value == loc[t].elements[loc[t].j].attribute
          IN  AttributeElements(t, [Ev(loc[t], "get_attribute", TRUE) EXCEPT
                                       !.values = IF Kept(value) THEN Append(@, value) ELSE @],
                                loc[t].j + 1)

\* selectors and extract_attributes dicts, in insertion order
SelectorDicts ==
    {<<>>,
     <<[key |-> "k1", selector |-> "s1"]>>,
     <<[key |-> "k1", selector |-> "s1"], [key |-> "k2", selector |-> "s2"]>>}

AttributeDicts ==
    {PyNone,
     PyList(<<>>),
     PyList(<<[selector |-> "s1", attribute |-> "href"]>>),
     PyList(<<[selector |-> "s1", attribute |-> "href"], [selector |-> "s2", attribute |-> "alt"]>>)}

ExtractDataInputs ==
    {[NoArgs EXCEPT !.op = "ExtractData", !.selectors = sel, !.extract_attributes = PyNone,
                    !.wait_for = w] :
        sel \in SelectorDicts, w \in {PyNone, PyStr("#w")}}
    \cup {[NoArgs EXCEPT !.op = "ExtractData", !.selectors = <<>>, !.extract_attributes = at] :
            at \in AttributeDicts}
    \cup {[NoArgs EXCEPT !.op = "ExtractData",
                         !.selectors = <<[key |-> "k1", selector |-> "s1"]>>,
                         !.extract_attributes = PyList(<<[selector |-> "s1", attribute |-> "href"]>>)]}

ExtractData(t, I) == \E a \in {x \in I : x.op = "ExtractData"} : Begin(t, a)

(***************************************************************************)
(* MonitorChanges.  Time is counted in whole seconds and passes only in    *)
(* asyncio.sleep(interval), which takes interval seconds.                  *)
(***************************************************************************)
\* (datetime.now() - start_time).total_seconds() <= max_time
Polling_inclusive(now, start_time, max_time) == (now - start_time) <= max_time

\* the test of line 289 allowing one second more
Polling_one_more(now, start_time, max_time) == (now - start_time) < max_time + 1

\* line 289: (datetime.now() - start_time).total_seconds() < max_time
Polling(now, start_time, max_time) == (now - start_time) < max_time

\* lines 296-300: change = {"timestamp": ..., "old_content": ..., "new_content": ...}
ChangeRecord(now, old, new) ==
    Put(Put(Put(EmptyDict, "timestamp", now), "old_content", old), "new_content", new)

\* lines 314-317: {"timestamp": ..., "error": str(e)}
ErrorRecord(now) == Put(Put(EmptyDict, "timestamp", now), "error", "message")

\* lines 304-306 with a file name that does not depend on the time
ChangePath_fixed(now) == <<"change", "png">>

\* lines 304-306: the path of a screenshot taken at time now
ChangePath(now) == <<"change", now, "png">>

\* lines 319-325
MonitorResult(t, l) ==
    Put(Put(Put(Put(Put(EmptyDict, "success", TRUE), "url", args[t].url), "selector", args[t].selector),
            "monitoring_duration", l.now - l.start_time),
        "changes", l.changes)

\* the while statement of line 289 leaving the loop after a read that raised
MonitorLoop_until_error(t, l) ==
    IF /\ Polling(l.now, l.start_time, args[t].max_time)
       /\ (l.reads = <<>> \/ l.reads[Len(l.reads)] /= "raised")
    THEN Suspend(t, "sleep", l)
    ELSE InnerFinally(t, [l EXCEPT !.exc = FALSE, !.result = MonitorResult(t, l)])

\* the while statement of line 289: one more sleep, or the return of line 319
MonitorLoop(t, l) ==
    IF Polling(l.now, l.start_time, args[t].max_time)
    THEN Suspend(t, "sleep", l)
    ELSE InnerFinally(t, [l EXCEPT !.exc = FALSE, !.result = MonitorResult(t, l)])

\* line 310 without line 311
Detected_baseline_unmoved(l, change) == [l EXCEPT !.changes = Append(@, change)]

\* lines 310-311 with the list rebuilt from the latest change
Detected_keeps_latest(l, change) ==
    [l EXCEPT !.changes = <<change>>, !.initial_content = l.current_content]

\* lines 310-311: changes.append(change); initial_content = current_content
Detected(l, change) ==
    [l EXCEPT !.changes = Append(@, change), !.initial_content = l.current_content]

\* the handler of lines 313-317 without the append
PollFailed_silent(l) == l

\* lines 313-317: the handler of the try inside the loop
PollFailed(l) == [l EXCEPT !.changes = Append(@, ErrorRecord(l.now))]

\* the contents the monitored element can show
Contents == {"a", "b"}

MonitorStep(t, label) ==
    /\ args[t].op = "MonitorChanges"
    /\ pc[t] = label
    /\ UNCHANGED <<handles, world, ncalls, args>>

\* await page.goto(url, timeout=self.timeout)
MonitorChanges_goto(t) ==
    /\ MonitorStep(t, "goto")
    /\ \/ Raise(t, Ev(loc[t], "goto", FALSE))
       \/ /\ PageAlive(loc[t].page)
          /\ Suspend(t, "wait_for_selector", [Ev(loc[t], "goto", TRUE) EXCEPT !.page_url = args[t].url])

\* await page.wait_for_selector(selector, timeout=self.timeout)
MonitorChanges_wait_for_selector(t) ==
    /\ MonitorStep(t, "wait_for_selector")
    /\ \/ Raise(t, Ev(loc[t], "wait_for_selector", FALSE))
       \/ /\ PageAlive(loc[t].page)
          /\ Suspend(t, "initial_content", Ev(loc[t], "wait_for_selector", TRUE))

\* initial_content = await page.evaluate(...); changes = []; start_time = datetime.now()
MonitorChanges_initial_content(t) ==
    /\ MonitorStep(t, "initial_content")
    /\ \/ Raise(t, Ev(loc[t], "initial_content", FALSE))
       \/ /\ PageAlive(loc[t].page)
          /\ \E c \in Contents :
                MonitorLoop(t, [Ev(loc[t], "initial_content", TRUE) EXCEPT
                                   !.initial_content = c, !.baseline = c,
                                   !.changes = <<>>, !.start_time = loc[t].now])

\* await asyncio.sleep(interval)
MonitorChanges_sleep(t) ==
    /\ MonitorStep(t, "sleep")
    /\ Suspend(t, "current_content",
               [Ev(loc[t], "sleep", TRUE) EXCEPT !.now = @ + args[t].interval])

\* current_content = await page.evaluate(...), lines 293-311
MonitorChanges_current_content(t) ==
    /\ MonitorStep(t, "current_content")
    /\ \/ MonitorLoop(t, PollFailed([Ev(loc[t], "current_content", FALSE) EXCEPT
                                        !.reads = Append(@, "raised")]))
       \/ /\ PageAlive(loc[t].page)
          /\ \E c \in Contents :
                LET l == [Ev(loc[t], "current_content", TRUE) EXCEPT
                              !.current_content = c, !.reads = Append(@, c)]
                    change == ChangeRecord(l.now, l.initial_content, c)
                IN  IF c /= l.initial_content
                    THEN IF args[t].screenshot_changes
                         THEN Suspend(t, "change_screenshot", [l EXCEPT !.change = change])
                         ELSE MonitorLoop(t, Detected(l, change))
                    ELSE MonitorLoop(t, l)

\* lines 303-308: await page.screenshot(path=path, full_page=True);
\* change["screenshot_path"] = path, then lines 310-311
MonitorChanges_screenshot(t) ==
    /\ MonitorStep(t, "change_screenshot")
    /\ \/ MonitorLoop(t, PollFailed(Ev(loc[t], "change_screenshot", FALSE)))
       \/ /\ PageAlive(loc[t].page)
          /\ MonitorLoop(t, Detected(Ev(loc[t], "change_screenshot", TRUE),
                                     Put(loc[t].change, "screenshot_path", ChangePath(loc[t].now))))

MonitorChangesInputs ==
    {[NoArgs EXCEPT !.op = "MonitorChanges", !.interval = n, !.max_time = m,
                    !.screenshot_changes = s] :
        n \in 1..MaxInterval, m \in 0..MaxMaxTime, s \in BOOLEAN}

MonitorChanges(t, I) == \E a \in {x \in I : x.op = "MonitorChanges"} : Begin(t, a)

(***************************************************************************)
(* Specifications                                                          *)
(***************************************************************************)
Init ==
    /\ _browser = None
    /\ _context = None
    /\ drivers = 0
    /\ browsers = <<>>
    /\ contexts = <<>>
    /\ pages = <<>>
    /\ ncalls = 0
    /\ pc = [t \in Tasks |-> "idle"]
    /\ args = [t \in Tasks |-> NoArgs]
    /\ loc = [t \in Tasks |-> NoLoc]

\* The steps of _ensure_browser, page open and close, and _cleanup.
Session(t) ==
    \/ ensure_browser_start(t)
    \/ ensure_browser_launch(t)
    \/ ensure_browser_new_context(t)
    \/ new_page(t)
    \/ page_close(t)
    \/ cleanup_context_close(t)
    \/ cleanup_browser_close(t)

VisitBody(t) ==
    \/ Visit_goto(t)
    \/ Visit_wait_for_selector(t)
    \/ Visit_title(t)
    \/ Visit_text(t)
    \/ Visit_html(t)
    \/ Visit_javascript(t)
    \/ Visit_screenshot(t)

FillFormBody(t) ==
    \/ FillForm_goto(t)
    \/ FillForm_field(t)
    \/ FillForm_tag_name(t)
    \/ FillForm_input_type(t)
    \/ FillForm_action(t)
    \/ FillForm_submit(t)
    \/ FillForm_click(t)
    \/ FillForm_wait_after_submit(t)
    \/ FillForm_title(t)
    \/ FillForm_screenshot(t)

ExtractDataBody(t) ==
    \/ ExtractData_goto(t)
    \/ ExtractData_wait_for_selector(t)
    \/ ExtractData_query_text(t)
    \/ ExtractData_inner_text(t)
    \/ ExtractData_query_attribute(t)
    \/ ExtractData_get_attribute(t)

MonitorChangesBody(t) ==
    \/ MonitorChanges_goto(t)
    \/ MonitorChanges_wait_for_selector(t)
    \/ MonitorChanges_initial_content(t)
    \/ MonitorChanges_sleep(t)
    \/ MonitorChanges_current_content(t)
    \/ MonitorChanges_screenshot(t)

\* One representative call of each shape, for the specifications that are
\* about the session and not about one operation's results.
FewInputs ==
    {[NoArgs EXCEPT !.op = "Visit", !.extract_text = FALSE],
     [NoArgs EXCEPT !.op = "Visit", !.wait_for = PyStr("#w"), !.extract_html = TRUE,
                    !.screenshot = TRUE, !.javascript = PyStr("js")],
     [NoArgs EXCEPT !.op = "FillForm", !.form_data = <<[selector |-> "#f1", value |-> <<"Y", "E", "S">>]>>,
                    !.wait_after_submit = PyStr("#done"), !.screenshot_result = TRUE],
     [NoArgs EXCEPT !.op = "ExtractData", !.wait_for = PyStr("#w"),
                    !.selectors = <<[key |-> "k1", selector |-> "s1"]>>,
                    !.extract_attributes = PyList(<<[selector |-> "s1", attribute |-> "href"]>>)],
     [NoArgs EXCEPT !.op = "MonitorChanges", !.interval = 1, !.max_time = 1,
                    !.screenshot_changes = TRUE]}

\* Calls made one at a time on one BrowserTool instance.
Next ==
    \/ Visit(1, FewInputs)
    \/ FillForm(1, FewInputs)
    \/ ExtractData(1, FewInputs)
    \/ MonitorChanges(1, FewInputs)
    \/ Session(1)
    \/ VisitBody(1)
    \/ FillFormBody(1)
    \/ ExtractDataBody(1)
    \/ MonitorChangesBody(1)

Spec == Init /\ [][Next]_vars

\* One Visit call, with every combination of its arguments.
NextVisit ==
    /\ \/ Visit(1, VisitInputs)
       \/ Session(1)
       \/ VisitBody(1)
    /\ ncalls' <= 1

SpecVisit == Init /\ [][NextVisit]_vars

\* One FillForm call on a form of up to MaxFields fields.
NextFillForm ==
    /\ \/ FillForm(1, FillFormInputs)
       \/ Session(1)
       \/ FillFormBody(1)
    /\ ncalls' <= 1

SpecFillForm == Init /\ [][NextFillForm]_vars

\* One ExtractData call.
NextExtractData ==
    /\ \/ ExtractData(1, ExtractDataInputs)
       \/ Session(1)
       \/ ExtractDataBody(1)
    /\ ncalls' <= 1

SpecExtractData == Init /\ [][NextExtractData]_vars

\* One MonitorChanges call.
NextMonitorChanges ==
    /\ \/ MonitorChanges(1, MonitorChangesInputs)
       \/ Session(1)
       \/ MonitorChangesBody(1)
    /\ ncalls' <= 1

SpecMonitorChanges == Init /\ [][NextMonitorChanges]_vars

\* One MonitorChanges call whose awaited calls complete: the event loop
\* resumes a coroutine when the call it awaits has returned or raised.
SpecMonitorChangesLive ==
    Init /\ [][NextMonitorChanges]_vars /\ WF_vars(MonitorChangesBody(1))

\* Two tasks call into the same instance and interleave at their awaits; each
\* call is a Visit that reads the title or a MonitorChanges of one interval.
AsyncInputs ==
    {[NoArgs EXCEPT !.op = "Visit", !.extract_text = FALSE],
     [NoArgs EXCEPT !.op = "MonitorChanges", !.interval = 1, !.max_time = 1]}

NextAsync ==
    \E t \in Tasks :
        \/ Visit(t, AsyncInputs)
        \/ MonitorChanges(t, AsyncInputs)
        \/ Session(t)
        \/ Visit_goto(t)
        \/ Visit_title(t)
        \/ MonitorChanges_goto(t)
        \/ MonitorChanges_wait_for_selector(t)
        \/ MonitorChanges_initial_content(t)
        \/ MonitorChanges_sleep(t)
        \/ MonitorChanges_current_content(t)

SpecAsync == Init /\ [][NextAsync]_vars

(***************************************************************************)
(* Properties                                                              *)
(***************************************************************************)
\* the driver call `name` of task t's call completed without raising
Did(t, name) == \E k \in DOMAIN loc[t].trace : loc[t].trace[k] = <<name, TRUE>>
\* the driver call `name` of task t's call raised
Failed(t, name) == \E k \in DOMAIN loc[t].trace : loc[t].trace[k] = <<name, FALSE>>

\* task t's call has returned the success result of operation op
Succeeded(t, op) ==
    /\ pc[t] = "returned"
    /\ args[t].op = op
    /\ "success" \in DOMAIN loc[t].ret

OpenedBy(t) ==
    {<<"browser", b>> : b \in {x \in DOMAIN browsers : browsers[x].by = loc[t].id}}
    \cup {<<"context", c>> : c \in {x \in DOMAIN contexts : contexts[x].by = loc[t].id}}

\* C1: with calls made one at a time, when a call returns a result (success
\* or error) no browser or context it opened is open and both handles are
\* None, and the call that follows one that returned launches its own browser
\* before it opens a page.
C1_NoSessionSurvivesCall ==
    \A t \in Tasks :
        /\ pc[t] = "returned" =>
              /\ _browser = None
              /\ _context = None
              /\ OpenedBy(t) = {}
        /\ (loc[t].after = "returned" /\ Did(t, "new_page")) => Did(t, "launch")

\* a second call, made after one that returned, has itself launched a browser,
\* failed later and returned an error result
C1_Witness ==
    /\ pc[1] = "returned"
    /\ loc[1].after = "returned"
    /\ Did(1, "launch")
    /\ Failed(1, "goto")
    /\ "error" \in DOMAIN loc[1].ret

\* C2: when a call has ended and its browser.close() did not itself fail, no
\* browser that the call launched is open, whichever other step failed.
C2_BrowserNeverLeaked ==
    \A t \in Tasks :
        (pc[t] \in {"returned", "raised"} /\ ~Failed(t, "browser.close")) =>
            \A b \in DOMAIN browsers : browsers[b].by /= loc[t].id

\* C3: no call ends by raising: every failure becomes an {error} result.
C3_NoUnhandledFailure == \A t \in Tasks : pc[t] /= "raised"

\* task t's call is between the opening of its page and the page's close()
UsesPage(t) ==
    pc[t] \notin {"idle", "start", "launch", "new_context", "new_page",
                  "context_close", "browser_close", "returned", "raised"}

\* C4: when two calls interleave, a call that is waiting for its context is
\* waiting on a browser that is open, a call that is opening a page opens it
\* in an open context that it created, and a call that works on a page has
\* that page open in a context that it created.
C4_EachCallOwnsItsSession ==
    \A t \in Tasks :
        /\ pc[t] = "new_context" => BrowserAlive(loc[t].browser)
        /\ pc[t] = "new_page" =>
              /\ ContextAlive(loc[t].ctx)
              /\ contexts[loc[t].ctx].by = loc[t].id
        /\ UsesPage(t) =>
              /\ PageAlive(loc[t].page)
              /\ contexts[pages[loc[t].page].context].by = loc[t].id

\* no driver call awaited by task t's call has raised
NoFailure(t) == \A k \in DOMAIN loc[t].trace : loc[t].trace[k][2]

\* C5: once both tasks have made a call and both calls have returned a
\* result, every browser that was launched is closed; stated for the calls
\* in which no driver call raised.
C5_EveryBrowserClosed ==
    (\A t \in Tasks : pc[t] = "returned" /\ NoFailure(t)) => DOMAIN browsers = {}

\* C6: in a successful ExtractData result, the data entry of every text
\* selector is the inner text of the one matched element when exactly one
\* matched, and otherwise the list of the inner texts of all N matched
\* elements in match order.
C6_TextEntryShape ==
    \A t \in Tasks :
        Succeeded(t, "ExtractData") =>
            \A i \in DOMAIN args[t].selectors :
                LET found == loc[t].matched[i]
                    entry == loc[t].ret["data"][args[t].selectors[i].key]
                IN  IF Len(found) = 1
                    THEN entry = found[1].inner_text
                    ELSE /\ entry.type = "list"
                         /\ Len(entry.l) = Len(found)
                         /\ \A n \in DOMAIN found : entry.l[n] = found[n].inner_text

\* a successful call whose two selectors matched two elements and none
C6_Witness ==
    /\ Succeeded(1, "ExtractData")
    /\ Len(args[1].selectors) = 2
    /\ Len(loc[1].matched[1]) = 2
    /\ loc[1].matched[1][1] /= loc[1].matched[1][2]
    /\ Len(loc[1].matched[2]) = 0

\* C7: in a successful ExtractData result, the attributes entry of a selector
\* that matched one or more elements, none of which has the attribute, is the
\* empty list.
C7_MissingAttributeGivesEmptyList ==
    \A t \in Tasks :
        Succeeded(t, "ExtractData") /\ Truthy(args[t].extract_attributes) =>
            \A i \in DOMAIN args[t].extract_attributes.l :
                LET found == loc[t].matched_attr[i]
                    entry == loc[t].ret["attributes"][args[t].extract_attributes.l[i].selector]
                IN  (Len(found) >= 1 /\ \A n \in DOMAIN found : found[n].attribute = PyNone)
                        => entry = PyList(<<>>)

\* a successful call with a selector whose single match lacks the attribute
\* and a selector whose two matches lack it
C7_Witness ==
    /\ Succeeded(1, "ExtractData")
    /\ Truthy(args[1].extract_attributes)
    /\ Len(args[1].extract_attributes.l) = 2
    /\ loc[1].matched_attr[1] = <<[attribute |-> PyNone]>>
    /\ loc[1].matched_attr[2] = <<[attribute |-> PyNone], [attribute |-> PyNone]>>

\* the values of the model's forms that equal "true", "1" or "yes" in some
\* letter case
TrueWords == {<<"t", "r", "u", "e">>, <<"1">>, <<"Y", "e", "S">>}

C9_VisitResultKeys ==
    \A t \in Tasks :
        Succeeded(t, "Visit") =>
            /\ ("text" \in DOMAIN loc[t].ret) = args[t].extract_text
            /\ ("html" \in DOMAIN loc[t].ret) = args[t].extract_html
            /\ {"url", "title"} \subseteq DOMAIN loc[t].ret

\* a successful Visit with extract_text and extract_html both false
C9_Witness ==
    /\ Succeeded(1, "Visit")
    /\ ~args[1].extract_text
    /\ ~args[1].extract_html
    /\ Truthy(args[1].javascript)

\* every read of the polling loop returned the content read before the loop
Unchanging(t) == \A k \in DOMAIN loc[t].reads : loc[t].reads[k] = loc[t].baseline

ReadFails(t) ==
    /\ pc[t] = "current_content"
    /\ loc'[t].reads = Append(loc[t].reads, "raised")

\* C11: a read of the polling loop that raises appends exactly one record
\* {timestamp, error} to changes, leaves the baseline initial_content as it
\* is, and is followed by the next sleep whenever the elapsed time is below
\* max_time (and by the normal return otherwise).
C11_FailedReadIsRecorded ==
    [][\A t \in Tasks :
          ReadFails(t) =>
              /\ Len(loc'[t].changes) = Len(loc[t].changes) + 1
              /\ SubSeq(loc'[t].changes, 1, Len(loc[t].changes)) = loc[t].changes
              /\ DOMAIN loc'[t].changes[Len(loc'[t].changes)] = {"timestamp", "error"}
              /\ loc'[t].changes[Len(loc'[t].changes)]["timestamp"] = loc[t].now
              /\ loc'[t].initial_content = loc[t].initial_content
              /\ ~loc'[t].exc
              /\ pc'[t] = IF loc[t].now - loc[t].start_time < args[t].max_time
                          THEN "sleep"
                          ELSE "page_close"]_vars

\* two reads in a row have raised, both are recorded and the loop sleeps again
C11_Witness ==
    /\ args[1].op = "MonitorChanges"
    /\ pc[1] = "sleep"
    /\ loc[1].reads = <<"raised", "raised">>
    /\ Len(loc[1].changes) = 2
    /\ \A k \in 1..2 : "error" \in DOMAIN loc[1].changes[k]

\* task t's MonitorChanges call is inside the polling loop of lines 289-317
InLoop(t) ==
    /\ args[t].op = "MonitorChanges"
    /\ pc[t] \in {"sleep", "current_content", "change_screenshot"}

\* task t's MonitorChanges call has read the baseline and is not in the loop
PastLoop(t) ==
    /\ args[t].op = "MonitorChanges"
    /\ Did(t, "initial_content")
    /\ ~InLoop(t)

\* task t's MonitorChanges call has executed the return of line 319
LoopDone(t) ==
    /\ PastLoop(t)
    /\ "success" \in DOMAIN loc[t].result

\* C12: a MonitorChanges call that has read the baseline leaves the polling
\* loop only through the return of line 319 and only when the time elapsed
\* since start_time has reached max_time, and a call that is in the loop
\* eventually executes that return, whatever its reads return.
C12_PollingEndsByElapsedTime ==
    /\ [](\A t \in Tasks :
             PastLoop(t) =>
                 /\ LoopDone(t)
                 /\ loc[t].now - loc[t].start_time >= args[t].max_time)
    /\ \A t \in Tasks : InLoop(t) ~> LoopDone(t)

\* the return of line 319 after a read that raised, an unchanged read and a
\* changed read
C12_Witness ==
    /\ LoopDone(1)
    /\ pc[1] = "page_close"
    /\ Len(loc[1].reads) = 3
    /\ loc[1].reads[1] = "raised"
    /\ loc[1].reads[2] = loc[1].baseline
    /\ loc[1].reads[3] \notin {"raised", loc[1].baseline}

\* C13: a MonitorChanges call that has read the baseline and has returned
\* has returned a success result that carries every record collected in the
\* loop; an error result comes only from a failure before the loop.
C13_OnlyInitFailuresAbort ==
    \A t \in Tasks :
        (pc[t] = "returned" /\ args[t].op = "MonitorChanges" /\ Did(t, "initial_content")) =>
            /\ "success" \in DOMAIN loc[t].ret
            /\ loc[t].ret["changes"] = loc[t].changes

\* how many times the driver call `name` has completed in task t's call
Count(t, name) == Cardinality({k \in DOMAIN loc[t].trace : loc[t].trace[k][1] = name})

\* C14: _ensure_browser called while self._browser is set awaits nothing,
\* launches nothing and leaves both handles as they are; called while no
\* session is active, when it returns it has launched one browser and opened
\* one context in it, and the handles refer to these two.
C14_EnsureBrowserIdempotent ==
    /\ [][\A t \in Tasks :
             (pc[t] \in {"idle", "returned", "raised"} /\ pc'[t] /= pc[t] /\ _browser /= None) =>
                 /\ pc'[t] \notin {"start", "launch", "new_context"}
                 /\ loc'[t].trace = <<>>
                 /\ UNCHANGED <<handles, world>>]_vars
    /\ [](\A t \in Tasks :
             (pc[t] = "new_page" /\ Did(t, "launch")) =>
                 /\ Count(t, "start") = 1
                 /\ Count(t, "launch") = 1
                 /\ Count(t, "new_context") = 1
                 /\ {b \in DOMAIN browsers : browsers[b].by = loc[t].id} = {_browser}
                 /\ {c \in DOMAIN contexts : contexts[c].by = loc[t].id} = {_context}
                 /\ contexts[_context].browser = _browser)

\* a call that found the handle of an earlier call set went straight on to
\* new_page(): the one driver started is the earlier call's
C14_Witness ==
    /\ pc[1] = "new_page"
    /\ loc[1].id = 2
    /\ loc[1].trace = <<>>
    /\ _browser /= None
    /\ drivers = 1

\* the positions of the driver call `name` in the record of task t's call
At(t, name) == {k \in DOMAIN loc[t].trace : loc[t].trace[k][1] = name}

\* C15: in every call, context.close() is awaited before browser.close();
\* when _cleanup has ended, both handles are None; and a _cleanup entered
\* with both handles None awaits no close and raises nothing.
C15_CleanupOrderAndClear ==
    \A t \in Tasks :
        /\ \A c \in At(t, "context.close") : \A b \in At(t, "browser.close") : c < b
        /\ pc[t] \in {"returned", "raised"} => (_browser = None /\ _context = None)
        /\ (Failed(t, "start") \/ Failed(t, "launch")) =>
              /\ pc[t] /= "raised"
              /\ At(t, "context.close") \cup At(t, "browser.close") = {}

\* C16: every result a call returns is either a success result (success is
\* True and there is no error key) or the error key alone.
C16_SuccessOrErrorOnly ==
    \A t \in Tasks :
        pc[t] = "returned" =>
            \/ DOMAIN loc[t].ret = {"error"}
            \/ /\ "success" \in DOMAIN loc[t].ret
               /\ loc[t].ret["success"] = TRUE
               /\ "error" \notin DOMAIN loc[t].ret

\* a call failed after it had built a result with data in it, and returned
\* the error alone
C16_Witness ==
    /\ pc[1] = "returned"
    /\ DOMAIN loc[1].ret = {"error"}
    /\ "success" \in DOMAIN loc[1].result
    /\ DOMAIN loc[1].result \cap {"text", "data", "changes", "title"} /= {}

\* task t's call is in _cleanup or has ended
PastPage(t) == pc[t] \in {"context_close", "browser_close", "returned", "raised"}

\* C17: a call that opened a page has awaited page.close() by the time it
\* enters _cleanup, on the normal path and after a failure alike, before any
\* context.close() or browser.close(); unless page.close() itself raised,
\* the page is closed from then on.
C17_PageClosedBeforeSession ==
    \A t \in Tasks :
        (Did(t, "new_page") /\ PastPage(t)) =>
            /\ At(t, "page.close") /= {}
            /\ \A p \in At(t, "page.close") :
                  \A c \in At(t, "context.close") \cup At(t, "browser.close") : p < c
            /\ Did(t, "page.close") => ~PageAlive(loc[t].page)

\* navigation failed; the page is closed and the context is about to be
C17_Witness ==
    /\ pc[1] = "context_close"
    /\ Failed(1, "goto")
    /\ Did(1, "page.close")
    /\ ~PageAlive(loc[1].page)
    /\ ContextAlive(loc[1].ctx)

\* an iteration of the polling loop ends in this step of task t
IterationEnds(t) ==
    /\ args[t].op = "MonitorChanges"
    /\ pc[t] \in {"current_content", "change_screenshot"}
    /\ pc'[t] \in {"sleep", "page_close"}

\* what the read of the iteration that ends in this step returned
ReadOf(t) == loc'[t].reads[Len(loc'[t].reads)]

\* C18: an iteration whose read returned a content that differs from the
\* baseline initial_content ends with exactly one more record in changes,
\* holding the baseline as old_content and the content read as new_content,
\* and with the baseline set to the content read, whether or not a
\* screenshot was asked for and whether or not it could be taken.
C18_ChangeRecordedAndBaselineMoved ==
    [][\A t \in Tasks :
          (IterationEnds(t) /\ ReadOf(t) \notin {"raised", loc[t].initial_content}) =>
              /\ SubSeq(loc'[t].changes, 1, Len(loc'[t].changes) - 1) = loc[t].changes
              /\ LET rec == loc'[t].changes[Len(loc'[t].changes)]
                 IN  /\ {"old_content", "new_content"} \subseteq DOMAIN rec
                     /\ rec["old_content"] = loc[t].initial_content
                     /\ rec["new_content"] = ReadOf(t)
              /\ loc'[t].initial_content = ReadOf(t)]_vars

\* the attribute values of the matched elements that carry the attribute, in
\* match order
Carried(found) ==
    LET having == SelectSeq(found, LAMBDA e : e.attribute /= PyNone)
    IN  [n \in 1..Len(having) |-> having[n].attribute]

\* C19: in a successful ExtractData result, the attributes entry of every
\* selector is made of the values of all the matched elements that carry the
\* attribute, the empty value included, in match order: that value itself
\* when there is exactly one, and the list of them otherwise.
C19_OnlyMissingValuesDropped ==
    \A t \in Tasks :
        Succeeded(t, "ExtractData") /\ Truthy(args[t].extract_attributes) =>
            \A i \in DOMAIN args[t].extract_attributes.l :
                LET carried == Carried(loc[t].matched_attr[i])
                    entry == loc[t].ret["attributes"][args[t].extract_attributes.l[i].selector]
                IN  entry = IF Len(carried) = 1 THEN carried[1] ELSE PyList(carried)

\* the driver calls that act on a field's element
FieldActions == {"select_option", "check", "uncheck", "fill"}

\* the positions of the calls of `name` that returned in task t's call
Returned(t, name) == {k \in DOMAIN loc[t].trace : loc[t].trace[k] = <<name, TRUE>>}

\* C20: every FillForm field whose tag name and input type were read got
\* exactly one action call, and every action that returned was applied to its
\* field once, with the field's own value and chosen from the element as
\* the document held it: select_option on a select element, which then has
\* the given value; otherwise check or uncheck on an input of type checkbox
\* or radio; otherwise fill, which leaves the literal value in the element.
C20_FieldDispatch ==
    \A t \in Tasks :
        (args[t].op = "FillForm" /\ InFlight(t)) =>
            /\ Cardinality(UNION {Returned(t, a) : a \in FieldActions}) = Len(loc[t].fills)
            /\ pc[t] \notin FieldActions =>
                  Cardinality(UNION {At(t, a) : a \in FieldActions})
                      = Cardinality(Returned(t, "input_type"))
            /\ pc[t] \in {"field", "submit"} => Len(loc[t].fills) = loc[t].i - 1
            /\ \A k \in DOMAIN loc[t].fills :
                  LET f == loc[t].fills[k]
                  IN  /\ f.value = args[t].form_data[k].value
                      /\ IF f.before.tag = "select"
                         THEN f.action = "select_option" /\ f.after.value = f.value
                         ELSE IF f.before.type \in {"checkbox", "radio"}
                              THEN f.action \in {"check", "uncheck"}
                              ELSE f.action = "fill" /\ f.after.value = f.value

\* a form of two fields was filled and submitted: a select element and a
\* radio button
C20_Witness ==
    /\ Succeeded(1, "FillForm")
    /\ Len(loc[1].fills) = 2
    /\ loc[1].fills[1].action = "select_option"
    /\ loc[1].fills[2].before.type = "radio"
    /\ loc[1].fills[2].action = "check"

\* the driver calls that end a call: the inner finally and _cleanup
Closings == {"page.close", "context.close", "browser.close"}

\* C21: the fields FillForm has filled are the first fields of form_data, in
\* the order of form_data; the submit button is looked for and clicked only
\* when every field has been filled; and when the element of a field cannot
\* be resolved, no further field and no submit button is touched (only the
\* page and the session are closed) and the call executes return {error}.
C21_FieldsInOrderThenSubmit ==
    \A t \in Tasks :
        args[t].op = "FillForm" =>
            /\ Len(loc[t].fills) <= Len(args[t].form_data)
            /\ \A k \in DOMAIN loc[t].fills :
                  /\ loc[t].fills[k].selector = args[t].form_data[k].selector
                  /\ loc[t].fills[k].value = args[t].form_data[k].value
            /\ (pc[t] \in {"submit", "click"} \/ At(t, "submit") \cup At(t, "click") /= {}) =>
                  /\ Len(loc[t].fills) = Len(args[t].form_data)
                  /\ \A a \in UNION {At(t, n) : n \in FieldActions \cup {"field"}} :
                        \A s \in At(t, "submit") \cup At(t, "click") : a < s
            /\ Failed(t, "field") =>
                  /\ Len(loc[t].fills) = Cardinality(Returned(t, "field"))
                  /\ At(t, "submit") \cup At(t, "click") = {}
                  /\ \A f \in At(t, "field") : \A k \in DOMAIN loc[t].trace :
                        (~loc[t].trace[f][2] /\ k > f) => loc[t].trace[k][1] \in Closings
                  /\ PastPage(t) => loc[t].ret = ErrorResult

\* the first field was filled, the element of the second could not be
\* resolved, and the call returned an error
C21_Witness ==
    /\ args[1].op = "FillForm"
    /\ pc[1] = "returned"
    /\ Len(args[1].form_data) = 2
    /\ Len(loc[1].fills) = 1
    /\ Failed(1, "field")
    /\ loc[1].ret = ErrorResult

\* C22: a successful FillForm result carries the URL the page is at after
\* the submission, and the title of the page at that URL.
C22_ResultOfSubmittedPage ==
    \A t \in Tasks :
        Succeeded(t, "FillForm") =>
            /\ loc[t].ret["title"] = TitleOf(loc[t].page_url)
            /\ loc[t].ret["url"] = loc[t].page_url

\* the steps of Visit in the order the operation is described, each with the
\* condition under which it is asked for (a selector or script that is None
\* or empty is not given)
StepRank(name) ==
    CASE name = "goto" -> 1
      [] name = "wait_for_selector" -> 2
      [] name = "title" -> 3
      [] name = "text" -> 4
      [] name = "html" -> 5
      [] name = "javascript" -> 6
      [] name = "screenshot" -> 7

StepAsked(a, name) ==
    CASE name = "goto" -> TRUE
      [] name = "wait_for_selector" -> a.wait_for /= PyNone /\ a.wait_for /= PyStr("")
      [] name = "title" -> TRUE
      [] name = "text" -> a.extract_text
      [] name = "html" -> a.extract_html
      [] name = "javascript" -> a.javascript /= PyNone /\ a.javascript /= PyStr("")
      [] name = "screenshot" -> a.screenshot

StepNames == {"goto", "wait_for_selector", "title", "text", "html", "javascript", "screenshot"}

\* the steps task t's call has completed on its page, in the order they completed
StepsDone(t) == SelectSeq(loc[t].trace, LAMBDA e : e[1] \in StepNames)

\* C23: the steps a Visit call has completed are steps that were asked for,
\* in the order navigate, wait, title, text, markup, script, screenshot, none
\* of the steps asked for passed over; a step that failed is the last one;
\* and the call then executes return {error}, with none of the values read.
C23_VisitStepOrder ==
    \A t \in Tasks :
        args[t].op = "Visit" =>
            LET done == StepsDone(t)
            IN  /\ \A k \in DOMAIN done :
                      /\ StepAsked(args[t], done[k][1])
                      /\ \A m \in DOMAIN done : k < m => StepRank(done[k][1]) < StepRank(done[m][1])
                      /\ \A n \in StepNames :
                            (StepAsked(args[t], n) /\ StepRank(n) < StepRank(done[k][1])) =>
                                \E m \in 1..(k - 1) : done[m] = <<n, TRUE>>
                      /\ ~done[k][2] =>
                            /\ k = Len(done)
                            /\ PastPage(t) => loc[t].ret = ErrorResult
                /\ (PastPage(t) /\ Did(t, "new_page") /\ \A k \in DOMAIN done : done[k][2]) =>
                      \A n \in StepNames : StepAsked(args[t], n) => Did(t, n)

\* the script failed after the title, the text and the markup had been read:
\* no screenshot was taken and the call returned the error alone
C23_Witness ==
    /\ args[1].op = "Visit"
    /\ pc[1] = "returned"
    /\ args[1].screenshot
    /\ Did(1, "title") /\ Did(1, "text") /\ Did(1, "html")
    /\ Failed(1, "javascript")
    /\ At(1, "screenshot") = {}
    /\ loc[1].ret = ErrorResult

C25_AtLeastOnePoll ==
    \A t \in Tasks :
        PastLoop(t) =>
            /\ Did(t, "sleep")
            /\ At(t, "current_content") /= {}

\* C26: during a MonitorChanges run a step leaves the records of changes as
\* they are and in place, appending at most one; the list never holds more
\* records than iterations were started; the timestamps never decrease along
\* the list; and a success result returns the list as it was built.
C26_ChangesAppendOnly ==
    /\ [][\A t \in Tasks :
             (args[t].op = "MonitorChanges" /\ loc'[t].id = loc[t].id) =>
                 /\ Len(loc'[t].changes) \in {Len(loc[t].changes), Len(loc[t].changes) + 1}
                 /\ SubSeq(loc'[t].changes, 1, Len(loc[t].changes)) = loc[t].changes]_vars
    /\ [](\A t \in Tasks :
             args[t].op = "MonitorChanges" =>
                 /\ Len(loc[t].changes) <= Cardinality(At(t, "sleep"))
                 /\ \A k \in DOMAIN loc[t].changes : \A m \in DOMAIN loc[t].changes :
                       k < m => loc[t].changes[k]["timestamp"] <= loc[t].changes[m]["timestamp"]
                 /\ Succeeded(t, "MonitorChanges") => loc[t].ret["changes"] = loc[t].changes)

\* three iterations, three records: a change, an error, a change
C26_Witness ==
    /\ Succeeded(1, "MonitorChanges")
    /\ Len(loc[1].ret["changes"]) = 3
    /\ "new_content" \in DOMAIN loc[1].ret["changes"][1]
    /\ "error" \in DOMAIN loc[1].ret["changes"][2]
    /\ "new_content" \in DOMAIN loc[1].ret["changes"][3]
    /\ loc[1].ret["changes"][1]["timestamp"] < loc[1].ret["changes"][3]["timestamp"]

\* C27: when a call has returned, every driver it started has been stopped
\* and no browser it launched is open.
C27_DriverAndBrowserReleased ==
    \A t \in Tasks :
        pc[t] = "returned" =>
            /\ drivers = 0
            /\ \A b \in DOMAIN browsers : browsers[b].by /= loc[t].id

\* the records of a changes list that carry old_content/new_content
ContentRecords(changes) == SelectSeq(changes, LAMBDA r : "new_content" \in DOMAIN r)

\* the records link up: each differs in old and new content, the first starts
\* from `baseline`, each later one from the new content of the one before it
Chained(records, baseline) ==
    \A k \in DOMAIN records :
        /\ records[k]["old_content"] /= records[k]["new_content"]
        /\ records[k]["old_content"] = IF k = 1 THEN baseline ELSE records[k - 1]["new_content"]

\* C28: the change records of a MonitorChanges run, the error records left
\* out, link up from the baseline read before the loop, at every point of
\* the run and in the list a success result returns.
C28_ChangeRecordsChain ==
    \A t \in Tasks :
        args[t].op = "MonitorChanges" =>
            /\ Chained(ContentRecords(loc[t].changes), loc[t].baseline)
            /\ Succeeded(t, "MonitorChanges") =>
                  Chained(ContentRecords(loc[t].ret["changes"]), loc[t].baseline)

\* a returned list where an error record stands between two change records,
\* the second change going back to the baseline
C28_Witness ==
    /\ Succeeded(1, "MonitorChanges")
    /\ Len(loc[1].ret["changes"]) = 3
    /\ "error" \in DOMAIN loc[1].ret["changes"][2]
    /\ Len(ContentRecords(loc[1].ret["changes"])) = 2
    /\ ContentRecords(loc[1].ret["changes"])[2]["new_content"] = loc[1].baseline

\* C29: with calls made one at a time, self._context is set only while
\* self._browser is set, and while no call is running neither is set.
C29_HandleInvariant ==
    /\ _context /= None => _browser /= None
    /\ (\A t \in Tasks : ~InFlight(t)) => (_browser = None /\ _context = None)

\* the screenshot paths attached to the records of a changes list, in order
ScreenshotPaths(changes) ==
    LET shot == SelectSeq(changes, LAMBDA r : "screenshot_path" \in DOMAIN r)
    IN  [k \in 1..Len(shot) |-> shot[k]["screenshot_path"]]

\* C30: in a MonitorChanges run with interval >= 1, no two change records
\* carry the same screenshot path, during the run and in the list returned.
C30_ScreenshotPathsDistinct ==
    \A t \in Tasks :
        (args[t].op = "MonitorChanges" /\ args[t].interval >= 1) =>
            LET paths == ScreenshotPaths(loc[t].changes)
            IN  /\ \A k \in DOMAIN paths : \A m \in DOMAIN paths : k /= m => paths[k] /= paths[m]
                /\ Succeeded(t, "MonitorChanges") => loc[t].ret["changes"] = loc[t].changes

\* a returned list with two change records in consecutive iterations, each
\* with its screenshot
C30_Witness ==
    /\ Succeeded(1, "MonitorChanges")
    /\ args[1].screenshot_changes
    /\ args[1].interval = 1
    /\ Len(ScreenshotPaths(loc[1].ret["changes"])) >= 2
    /\ loc[1].ret["changes"][2]["timestamp"] = loc[1].ret["changes"][1]["timestamp"] + 1

====
